---- MODULE Spec2Model ----
(***************************************************************************)
(* Verification model of the Mac-Room-Checker scrapers:                   *)
(*   - intercept_scrape_ui.py : XML normaliser (parse_addcourse_xml), the  *)
(*     store (ensure_db, save_to_db) and the UI-driven run loop            *)
(*     (try_add_course, remove_all_courses, run);                          *)
(*   - web_scrape.py          : the catalog paginator (main);              *)
(*   - cleandata.py           : the course-code extractor.                 *)
(* Five specifications share the module:                                   *)
(*   Spec       the UI-driven run loop, end to end                         *)
(*   SpecParse  parse_addcourse_xml applied to bounded XML documents       *)
(*   SpecStore  sequences of save_to_db calls on the store                 *)
(*   SpecPager  web_scrape.main's page walk                                *)
(*   SpecClean  cleandata.py's pass over course_names.csv                  *)
(***************************************************************************)
EXTENDS Integers, Sequences, FiniteSets, TLC

VARIABLES
    \* ---- run() of intercept_scrape_ui.py
    pc,              \* position of run()
    fileExists,      \* COURSE_CODES_FILE.exists()
    fileLines,       \* the stripped non-empty lines of course_codes.txt
    course_pairs,    \* the (subj, num) pairs parsed from the lines
    dbConnects,      \* number of sqlite3.connect calls made so far
    tablesCreated,   \* CREATE TABLE IF NOT EXISTS has run
    logDirCreated,   \* LOG_DIR.mkdir has run
    browserLaunched, \* p.chromium.launch has run
    idx,             \* number of pairs whose loop iteration has started
    uiAdded,         \* courses currently selected in the UI, in button order
    inflight,        \* URLs of /api requests fired and not yet delivered
    api_task,        \* state of the wait_for_event task of try_add_course
    polls,           \* iterations of the polling loop done for this pair
    seen,            \* what the last poll of this pair observed
    status,          \* try_add_course's returned status
    payload,         \* try_add_course's returned payload
    saved, skipped, failed,   \* the tallies
    removesSince,    \* remove_all_courses calls since the last try_add_course call
    attempted,       \* pairs try_add_course was called for, in call order
    raisedCount,     \* exceptions raised so far in try_add_course / parse / save
    saveCalls,       \* save_to_db calls made by run()
    lastOutcome,     \* which branch of the loop body the last pair took
    crashCause,      \* the call whose exception left run(), or "none"
    summaryPrinted,  \* the summary has been printed
    \* ---- the store (sqlite tables)
    courses, selections, blocks,
    \* ---- SpecStore: the save_to_db calls made so far
    saveLog,
    \* ---- SpecParse
    xmlDoc, parsed,
    \* ---- SpecPager: main() of web_scrape.py
    pg_pc, page_i, displayed, last_page, scrapedPages, clickedPages, clickFailed, written,
    \* ---- SpecClean: cleandata.py
    cl_pc,           \* position of the script
    csvRows,         \* the rows csv.reader yields for course_names.csv
    rowIdx,          \* rows consumed by the for loop so far
    header_seen,     \* the header row has been skipped
    codes,           \* the set of extracted codes
    rejected,        \* the reject list
    rejectedFrom,    \* for each reject, in order, the index of the row it came from
    codesFile,       \* the lines written to course_codes.txt
    rejectedFile     \* the lines written to rejected_lines.txt

runVars == <<pc, fileExists, fileLines, course_pairs, dbConnects, tablesCreated,
             logDirCreated, browserLaunched, idx, uiAdded, inflight, api_task,
             polls, seen, status, payload, saved, skipped, failed, removesSince,
             attempted, raisedCount, saveCalls, lastOutcome, crashCause, summaryPrinted>>
dbVars == <<courses, selections, blocks>>
storeVars == <<saveLog>>
parseVars == <<xmlDoc, parsed>>
pagerVars == <<pg_pc, page_i, displayed, last_page, scrapedPages, clickedPages,
               clickFailed, written>>
cleanVars == <<cl_pc, csvRows, rowIdx, header_seen, codes, rejected, rejectedFrom,
               codesFile, rejectedFile>>
vars == <<runVars, dbVars, storeVars, parseVars, pagerVars, cleanVars>>

(***************************************************************************)
(* Bounds of the model                                                     *)
(***************************************************************************)
MaxLines == 2        \* lines of course_codes.txt
MaxSaves == 2        \* save_to_db calls in SpecStore
MaxUsel == 2         \* uselection children of a course in SpecParse
MaxDetected == 4     \* largest page number the pagination buttons show
MaxRows == 5
MaxCsvRows == 3         \* table rows found on a catalog page

(***************************************************************************)
(* Program constants                                                       *)
(***************************************************************************)
API_TIMEOUT == 1500
POLL_INTERVAL == 150
START_PAGE == 2
FALLBACK_LAST_PAGE == 31
FIRST_ROW == 3
PREDICATE_SLOTS == 5

NoneVal == "None"

Max(a, b) == IF a >= b THEN a ELSE b

RECURSIVE Concat(_)
\* the concatenation of a sequence of sequences
Concat(ss) == IF ss = <<>> THEN <<>> ELSE Head(ss) \o Concat(Tail(ss))

SeqsUpTo(S, n) == UNION {[1..k -> S] : k \in 0..n}

(***************************************************************************)
(* minutes_to_hhmm and DAY_MAP                                             *)
(***************************************************************************)
\* f"{m//60:02d}:{m%60:02d}" : the two fields that are printed
minutes_to_hhmm(m) == [hh |-> m \div 60, mm |-> m % 60]

DAY_MAP == [d \in 1..7 |->
    CASE d = 1 -> "Sun" [] d = 2 -> "Mon" [] d = 3 -> "Tue" [] d = 4 -> "Wed"
      [] d = 5 -> "Thu" [] d = 6 -> "Fri" [] d = 7 -> "Sat"]

\* DAY_MAP.get(str(dn), str(dn))
DayName(dn) == IF dn \in DOMAIN DAY_MAP THEN DAY_MAP[dn] ELSE "str(dn)"

(***************************************************************************)
(* XML documents.  A response text is the empty string, text that is not   *)
(* well-formed XML, or a document: whether a classdata, a term and a       *)
(* course element are found, the course's attributes and its uselection   *)
(* children.  A uselection holds at most one selection (the first is       *)
(* used), its timeblock children, and the selection's block children.      *)
(***************************************************************************)
Timeblock(id, day, numeric) ==
    [id |-> id, day |-> day, t1 |-> 510 + 60 * day, t2 |-> 560 + 60 * day, numeric |-> numeric]

Block(type, ids) ==
    [type |-> type, secNo |-> "C01", location |-> "BSB 147", timeblockids |-> ids]

USelection(hasSel, key, tbs, blks) ==
    [hasSelection |-> hasSel, key |-> key, va |-> NoneVal, timeblocks |-> tbs, blocks |-> blks]

Document(hasClassdata, hasCourse, key, usels) ==
    [hasClassdata |-> hasClassdata, hasCourse |-> hasCourse, hasTerm |-> hasClassdata,
     key |-> key, code |-> "MATH", number |-> key, title |-> NoneVal,
     term_v |-> "Fall", term_n |-> "3202530", uselections |-> usels]

XmlText(doc) == [text |-> "xml", doc |-> doc]
EmptyText == [text |-> "empty", doc |-> Document(FALSE, FALSE, NoneVal, <<>>)]
MalformedText == [text |-> "malformed", doc |-> Document(FALSE, FALSE, NoneVal, <<>>)]

\* attr or ""
OrEmpty(attr) == IF attr = NoneVal THEN "" ELSE attr

\* (blk.get("timeblockids") or "").split(",") : the attribute is held as its
\* comma-separated tokens; a missing or empty attribute splits to one empty token
SplitIds(ids) == IF ids = <<>> THEN <<"">> ELSE ids

\* the dict comprehension of lines 122-129: a later timeblock with the same id
\* replaces an earlier one
TbMapHas(tbs, id) == \E j \in 1..Len(tbs) : tbs[j].id = id
TbMapGet(tbs, id) ==
    LET js == {j \in 1..Len(tbs) : tbs[j].id = id}
        last == CHOOSE j \in js : \A k \in js : k <= j
    IN  tbs[last]

\* [tb_map[i] for i in ids if i in tb_map]
ResolveTimeblocks(tbs, ids) ==
    LET kept == SelectSeq(ids, LAMBDA i : TbMapHas(tbs, i))
    IN  [j \in 1..Len(kept) |-> TbMapGet(tbs, kept[j])]

\* lines 130-138: one record per block of the selection
ParseBlocks(usel) ==
    [j \in 1..Len(usel.blocks) |->
        [type |-> usel.blocks[j].type,
         secNo |-> usel.blocks[j].secNo,
         room |-> OrEmpty(usel.blocks[j].location),
         timeblocks |-> ResolveTimeblocks(usel.timeblocks, SplitIds(usel.blocks[j].timeblockids))]]

\* lines 117-121, 139: the record built for one uselection that has a selection
ParseSelection(usel) ==
    [selection_key |-> usel.key, variant_va |-> OrEmpty(usel.va), blocks |-> ParseBlocks(usel)]

KeepsUselection_all(usel) == TRUE

\* line 114-116: a uselection without a selection child is passed over
KeepsUselection(usel) == usel.hasSelection

\* lines 112-139
ParseSelections(usels) ==
    LET kept == SelectSeq(usels, KeepsUselection)
    IN  [j \in 1..Len(kept) |-> ParseSelection(kept[j])]

NoCourse == [course_key |-> NoneVal, code |-> NoneVal, number |-> NoneVal,
             title |-> "", term_label |-> "", raw_term |-> ""]

\* lines 89-101: ET.fromstring fails on text that is not XML; a document
\* without course or classdata raises ValueError
ParseRaises(p) == p.text # "xml" \/ ~p.doc.hasCourse \/ ~p.doc.hasClassdata

\* lines 103-110
ParseCourse(doc) ==
    [course_key |-> doc.key, code |-> doc.code, number |-> doc.number,
     title |-> OrEmpty(doc.title),
     term_label |-> IF doc.hasTerm THEN doc.term_v ELSE "",
     raw_term |-> IF doc.hasTerm THEN doc.term_n ELSE ""]

parse_addcourse_xml(p) ==
    IF ParseRaises(p)
    THEN [raised |-> TRUE, course |-> NoCourse, selections |-> <<>>]
    ELSE [raised |-> FALSE, course |-> ParseCourse(p.doc),
          selections |-> ParseSelections(p.doc.uselections)]

(***************************************************************************)
(* The store.  courses and selections are sets of rows with a primary key; *)
(* blocks is the sequence of rows in insertion order, each with the        *)
(* autoincrement id it was given.                                          *)
(***************************************************************************)
EmptyDb == [courses |-> {}, selections |-> {}, blocks |-> <<>>]

\* INSERT OR REPLACE INTO courses : the row with this primary key is replaced
UpsertCourse(tbl, row) == {r \in tbl : r.course_key # row.course_key} \cup {row}

\* INSERT OR REPLACE INTO selections
UpsertSelection(tbl, row) == {r \in tbl : r.selection_key # row.selection_key} \cup {row}

RECURSIVE UpsertSelections(_, _, _)
\* the loop of line 152 over the selections, in order
UpsertSelections(tbl, course, sels) ==
    IF sels = <<>> THEN tbl
    ELSE UpsertSelections(
            UpsertSelection(tbl, [selection_key |-> Head(sels).selection_key,
                                  course_key |-> course.course_key,
                                  variant_va |-> Head(sels).variant_va]),
            course, Tail(sels))

BlockValues_firstTb(sel, blk, tb) ==
    [selection_key |-> sel.selection_key, block_type |-> blk.type, sec_no |-> blk.secNo,
     room |-> IF blk.room = "" THEN NoneVal ELSE blk.room,
     timeblock_id |-> blk.timeblocks[1].id, day_num |-> tb.day, day_name |-> DayName(tb.day),
     start_min |-> tb.t1, end_min |-> tb.t2,
     start_time |-> minutes_to_hhmm(tb.t1), end_time |-> minutes_to_hhmm(tb.t2)]

\* lines 160-167: the values of one blocks row, without its id
BlockValues(sel, blk, tb) ==
    [selection_key |-> sel.selection_key, block_type |-> blk.type, sec_no |-> blk.secNo,
     room |-> IF blk.room = "" THEN NoneVal ELSE blk.room,
     timeblock_id |-> tb.id, day_num |-> tb.day, day_name |-> DayName(tb.day),
     start_min |-> tb.t1, end_min |-> tb.t2,
     start_time |-> minutes_to_hhmm(tb.t1), end_time |-> minutes_to_hhmm(tb.t2)]

\* the rows one selection inserts, in order (lines 158-168)
SelectionBlockValues(sel) ==
    Concat([b \in 1..Len(sel.blocks) |->
        [t \in 1..Len(sel.blocks[b].timeblocks) |->
            BlockValues(sel, sel.blocks[b], sel.blocks[b].timeblocks[t])]])

NewBlockValues(sels) == Concat([s \in 1..Len(sels) |-> SelectionBlockValues(sels[s])])

AppendBlocks_dedup(tbl, vals) ==
    LET fresh == SelectSeq(vals, LAMBDA v : \A m \in 1..Len(tbl) : tbl[m].v # v)
    IN  tbl \o [j \in 1..Len(fresh) |-> [id |-> Len(tbl) + j, v |-> fresh[j]]]

\* INSERT INTO blocks : AUTOINCREMENT gives each row the next unused id
AppendBlocks(tbl, vals) ==
    tbl \o [j \in 1..Len(vals) |-> [id |-> Len(tbl) + j, v |-> vals[j]]]

\* line 160: int(tb["day"]), int(tb["t1"]), int(tb["t2"]) raise on a value that
\* is not an integer literal
SaveRaises(sels) ==
    \E s \in 1..Len(sels) : \E b \in 1..Len(sels[s].blocks) :
        \E t \in 1..Len(sels[s].blocks[b].timeblocks) :
            ~sels[s].blocks[b].timeblocks[t].numeric

\* lines 143-170.  The inserts run in one implicit transaction that only
\* con.commit() (line 169) makes durable: a call that raises leaves the store
\* as it was.
save_to_db(db, course, sels) ==
    IF SaveRaises(sels)
    THEN [raised |-> TRUE, db |-> db]
    ELSE [raised |-> FALSE,
          db |-> [courses |-> UpsertCourse(db.courses, course),
                  selections |-> UpsertSelections(db.selections, course, sels),
                  blocks |-> AppendBlocks(db.blocks, NewBlockValues(sels))]]

Db == [courses |-> courses, selections |-> selections, blocks |-> blocks]

(***************************************************************************)
(* course_codes.txt and parse_course_line.  A line is held as its          *)
(* whitespace-separated tokens.                                            *)
(***************************************************************************)
Lines == { <<"math", "1zb3">>, <<"CHEM", "1A03">>, <<"not", "a", "course">> }

\* str.upper() on the tokens the model uses
Upper(tok) ==
    CASE tok = "math" -> "MATH" [] tok = "1zb3" -> "1ZB3" [] OTHER -> tok

\* COURSE_LINE_RE = ^\s*([A-Za-z]+)\s+([0-9A-Za-z]+)\s*$ : exactly two tokens
\* (every token of Lines is alphanumeric, the first ones alphabetic)
CourseLineMatches(line) == Len(line) = 2

\* lines 181-185
parse_course_line(line) ==
    IF ~CourseLineMatches(line) THEN <<NoneVal, NoneVal>>
    ELSE <<Upper(line[1]), Upper(line[2])>>

\* lines 302-308: the pairs of the lines that match, in file order
ReadPairs(lines) ==
    LET good == SelectSeq(lines, LAMBDA ln : parse_course_line(ln) # <<NoneVal, NoneVal>>)
    IN  [j \in 1..Len(good) |-> parse_course_line(good[j])]

(***************************************************************************)
(* try_add_course                                                          *)
(***************************************************************************)
\* line 214: f"{subj}-{num}"
Target(pair) == <<pair[1], "-", pair[2]>>

\* the URL of the class-data request the page fires when a course is added:
\* course_<i>_0=<SUBJ>-<NUM> for each selected course, in order
ClassDataUrl(ui) == [classData |-> TRUE, courses |-> [j \in 1..Len(ui) |-> Target(ui[j])]]
OtherUrl == [classData |-> FALSE, courses |-> <<>>]

\* lines 213-220: the response is a class-data response and one of the first
\* five course slots holds this subject-number.  Line 219 tests that
\* "course_<i>_0=<target>" occurs in the URL; no code of Lines is the start of
\* another, so a slot holds the target exactly when it starts with it.
api_predicate_for(pair, url) ==
    /\ url.classData
    /\ \E i \in 0..(PREDICATE_SLOTS - 1) :
          i + 1 <= Len(url.courses) /\ url.courses[i + 1] = Target(pair)

\* line 265
steps == Max(1, API_TIMEOUT \div POLL_INTERVAL)

NoTask == [state |-> "none", url |-> OtherUrl]
PendingTask == [state |-> "pending", url |-> OtherUrl]

\* what happened to the wait_for_event task since the last look: nothing, its
\* timeout or another error, or a response was delivered to the page
Events(fl) ==
    {[kind |-> "none", url |-> OtherUrl], [kind |-> "fail", url |-> OtherUrl],
     [kind |-> "resp", url |-> OtherUrl]}
    \cup {[kind |-> "resp", url |-> u] : u \in fl}

\* page.wait_for_event("response", predicate=..., timeout=API_TIMEOUT)
TaskAfter(task, ev, pair) ==
    IF task.state # "pending" THEN task
    ELSE IF ev.kind = "fail" THEN [state |-> "failed", url |-> OtherUrl]
    ELSE IF ev.kind = "resp" /\ api_predicate_for(pair, ev.url)
         THEN [state |-> "done", url |-> ev.url]
    ELSE task

\* api_task.done()
TaskDone(task) == task.state \in {"done", "failed"}

\* lines 268-269, 272-273, 283-284: if not api_task.done(): api_task.cancel()
CancelIfPending(task) ==
    IF TaskDone(task) THEN task ELSE [state |-> "cancelled", url |-> OtherUrl]

PollReturn_swapped(could_not, only_avail, task) ==
    IF could_not THEN "skip_wrong_term"
    ELSE IF only_avail THEN "skip_not_found"
    ELSE IF TaskDone(task) THEN "api" ELSE "wait"

\* lines 267-281: one iteration of the polling loop
PollReturn(could_not, only_avail, task) ==
    IF could_not THEN "skip_not_found"
    ELSE IF only_avail THEN "skip_wrong_term"
    ELSE IF TaskDone(task) THEN "api" ELSE "wait"

\* lines 276-280 and 286-290: resp = await api_task; await resp.text()
ApiStatus(task, textOk) ==
    IF task.state = "done" /\ textOk THEN "saved" ELSE "no_option"

(***************************************************************************)
(* remove_all_courses (lines 222-243): clicks the first 'Remove course'    *)
(* button until none is left; a click that raises ends the loop (line      *)
(* 234).  k is the number of clicks that succeed.                          *)
(***************************************************************************)
remove_all_courses(ui, k) == SubSeq(ui, k + 1, Len(ui))

(***************************************************************************)
(* run(): the loop body after try_add_course has returned (lines 337-368)  *)
(***************************************************************************)
Tb1 == Timeblock("1", 2, TRUE)
Tb2 == Timeblock("2", 4, TRUE)
TbBad == Timeblock("1", 2, FALSE)

\* the response texts the timetable service may answer a pair with
RunPayloads(pair) ==
    { EmptyText, MalformedText,
      XmlText(Document(FALSE, FALSE, NoneVal, <<>>)),
      XmlText(Document(TRUE, TRUE, pair[1], <<>>)),
      XmlText(Document(TRUE, TRUE, pair[1],
                       <<USelection(TRUE, pair[2], <<Tb1, Tb2>>, <<Block("LEC", <<"1", "2">>)>>)>>)),
      XmlText(Document(TRUE, TRUE, pair[1],
                       <<USelection(TRUE, pair[2], <<TbBad>>, <<Block("LAB", <<"1">>)>>)>>)) }

\* `payload` as a condition (line 337): the empty string is false
Truthy(p) == p.text # "empty"

SelectionsTruthy_always(sels) == TRUE

\* `if selections:` (line 342)
SelectionsTruthy(sels) == sels # <<>>

Caught_parse_only(where) == where \in {"try_add_course", "parse_addcourse_xml"}

\* the try blocks of the loop: lines 327-335 cover try_add_course, lines
\* 340-352 cover parse_addcourse_xml and save_to_db; line 339 is in neither
Caught(where) == where \in {"try_add_course", "parse_addcourse_xml", "save_to_db"}

Outcome(branch, tally, raisedIn, db, saveCalled) ==
    [branch |-> branch, tally |-> tally, raisedIn |-> raisedIn, db |-> db,
     saveCalled |-> saveCalled]

\* lines 337-368, given that line 339 did not raise
UnknownTally_none == "none"

\* lines 366-368: any other state counts the pair as failed
UnknownTally == "failed"

LoopBody(st, p, db) ==
    IF st = "saved" /\ Truthy(p) THEN
        LET r == parse_addcourse_xml(p) IN
        IF r.raised THEN Outcome("parse_error", "failed", "parse_addcourse_xml", db, FALSE)
        ELSE IF SelectionsTruthy(r.selections) THEN
            LET w == save_to_db(db, r.course, r.selections) IN
            IF w.raised THEN Outcome("save_error", "failed", "save_to_db", db, TRUE)
            ELSE Outcome("saved", "saved", "none", w.db, TRUE)
        ELSE Outcome("empty", "skipped", "none", db, FALSE)
    ELSE IF st = "skip_not_found" THEN Outcome("skip_not_found", "skipped", "none", db, FALSE)
    ELSE IF st = "skip_wrong_term" THEN Outcome("skip_wrong_term", "skipped", "none", db, FALSE)
    ELSE IF st = "no_option" THEN Outcome("no_option", "skipped", "none", db, FALSE)
    ELSE Outcome("unknown", UnknownTally, "none", db, FALSE)

AfterMissingFile_launch == "launch"

\* line 299: return
AfterMissingFile == "done"

AfterExcept_fallthrough == "remove"

\* line 335: continue
AfterExcept == "loop"

NoOutcome == [branch |-> "none", tally |-> "none", snapshot |-> "none"]
Pair == IF idx \in 1..Len(course_pairs) THEN course_pairs[idx] ELSE <<NoneVal, NoneVal>>

RunIdle ==
    /\ pc = "idle" /\ fileExists = FALSE /\ fileLines = <<>> /\ course_pairs = <<>>
    /\ dbConnects = 0 /\ tablesCreated = FALSE /\ logDirCreated = FALSE
    /\ browserLaunched = FALSE /\ idx = 0 /\ uiAdded = <<>> /\ inflight = {}
    /\ api_task = NoTask /\ polls = 0 /\ seen = [could_not |-> FALSE, only_avail |-> FALSE]
    /\ status = "none" /\ payload = EmptyText /\ saved = 0 /\ skipped = 0 /\ failed = 0
    /\ removesSince = 0 /\ attempted = <<>> /\ raisedCount = 0 /\ saveCalls = 0
    /\ lastOutcome = NoOutcome /\ crashCause = "none" /\ summaryPrinted = FALSE

DbEmpty == courses = {} /\ selections = {} /\ blocks = <<>>
StoreIdle == saveLog = <<>>
ParseIdle == xmlDoc = EmptyText /\ parsed = [done |-> FALSE, result |-> parse_addcourse_xml(EmptyText)]
PagerIdle ==
    /\ pg_pc = "idle" /\ page_i = 0 /\ displayed = 0 /\ last_page = 0
    /\ scrapedPages = <<>> /\ clickedPages = <<>> /\ clickFailed = FALSE /\ written = 0
CleanIdle ==
    /\ cl_pc = "idle" /\ csvRows = <<>> /\ rowIdx = 0 /\ header_seen = FALSE
    /\ codes = {} /\ rejected = <<>> /\ rejectedFrom = <<>>
    /\ codesFile = <<>> /\ rejectedFile = <<>>

Init ==
    /\ pc = "start"
    /\ fileExists \in BOOLEAN
    /\ fileLines \in SeqsUpTo(Lines, MaxLines)
    /\ course_pairs = <<>>
    /\ dbConnects = 0 /\ tablesCreated = FALSE /\ logDirCreated = FALSE
    /\ browserLaunched = FALSE /\ idx = 0 /\ uiAdded = <<>> /\ inflight = {}
    /\ api_task = NoTask /\ polls = 0 /\ seen = [could_not |-> FALSE, only_avail |-> FALSE]
    /\ status = "none" /\ payload = EmptyText /\ saved = 0 /\ skipped = 0 /\ failed = 0
    /\ removesSince = 0 /\ attempted = <<>> /\ raisedCount = 0 /\ saveCalls = 0
    /\ lastOutcome = NoOutcome /\ crashCause = "none" /\ summaryPrinted = FALSE
    /\ DbEmpty /\ StoreIdle /\ ParseIdle /\ PagerIdle /\ CleanIdle

others == <<storeVars, parseVars, pagerVars, cleanVars>>

\* line 294: ensure_db() connects and creates the three tables
EnsureDb ==
    /\ pc = "start"
    /\ dbConnects' = dbConnects + 1
    /\ tablesCreated' = TRUE
    /\ pc' = "mkdir"
    /\ UNCHANGED <<fileExists, fileLines, course_pairs, logDirCreated, browserLaunched, idx,
                   uiAdded, inflight, api_task, polls, seen, status, payload, saved, skipped,
                   failed, removesSince, attempted, raisedCount, saveCalls, lastOutcome,
                   crashCause, summaryPrinted, dbVars, others>>

\* line 295: LOG_DIR.mkdir(exist_ok=True)
MkLogDir ==
    /\ pc = "mkdir"
    /\ logDirCreated' = TRUE
    /\ pc' = "check"
    /\ UNCHANGED <<fileExists, fileLines, course_pairs, dbConnects, tablesCreated,
                   browserLaunched, idx, uiAdded, inflight, api_task, polls, seen, status,
                   payload, saved, skipped, failed, removesSince, attempted, raisedCount,
                   saveCalls, lastOutcome, crashCause, summaryPrinted, dbVars, others>>

\* lines 297-308: the missing file ends run(); otherwise the pairs are read
CheckFile ==
    /\ pc = "check"
    /\ IF ~fileExists
       THEN pc' = AfterMissingFile /\ course_pairs' = course_pairs
       ELSE pc' = "launch" /\ course_pairs' = ReadPairs(fileLines)
    /\ UNCHANGED <<fileExists, fileLines, dbConnects, tablesCreated, logDirCreated,
                   browserLaunched, idx, uiAdded, inflight, api_task, polls, seen, status,
                   payload, saved, skipped, failed, removesSince, attempted, raisedCount,
                   saveCalls, lastOutcome, crashCause, summaryPrinted, dbVars, others>>

\* lines 310-323: the browser is launched and the criteria page opened
Launch ==
    /\ pc = "launch"
    /\ browserLaunched' = TRUE
    /\ pc' = "loop"
    /\ UNCHANGED <<fileExists, fileLines, course_pairs, dbConnects, tablesCreated,
                   logDirCreated, idx, uiAdded, inflight, api_task, polls, seen, status,
                   payload, saved, skipped, failed, removesSince, attempted, raisedCount,
                   saveCalls, lastOutcome, crashCause, summaryPrinted, dbVars, others>>

\* lines 325-328: the next pair is taken and try_add_course called for it
LoopNext ==
    /\ pc = "loop"
    /\ idx < Len(course_pairs)
    /\ idx' = idx + 1
    /\ attempted' = Append(attempted, course_pairs[idx + 1])
    /\ removesSince' = 0
    /\ api_task' = NoTask /\ polls' = 0
    /\ seen' = [could_not |-> FALSE, only_avail |-> FALSE]
    /\ status' = "none" /\ payload' = EmptyText
    /\ lastOutcome' = NoOutcome
    /\ pc' = "try_add"
    /\ UNCHANGED <<fileExists, fileLines, course_pairs, dbConnects, tablesCreated,
                   logDirCreated, browserLaunched, uiAdded, inflight, saved, skipped, failed,
                   raisedCount, saveCalls, crashCause, summaryPrinted, dbVars, others>>

\* lines 325, 374-381: the list is exhausted
LoopEnd ==
    /\ pc = "loop"
    /\ idx = Len(course_pairs)
    /\ pc' = "summary"
    /\ UNCHANGED <<fileExists, fileLines, course_pairs, dbConnects, tablesCreated,
                   logDirCreated, browserLaunched, idx, uiAdded, inflight, api_task, polls,
                   seen, status, payload, saved, skipped, failed, removesSince, attempted,
                   raisedCount, saveCalls, lastOutcome, crashCause, summaryPrinted,
                   dbVars, others>>

\* lines 253-254 raise (the criteria page or the combobox is not found), then
\* lines 329-335: snapshot (a PWError in it is swallowed, line 177), failed
\* += 1, remove_all_courses, continue
TryAddRaises ==
    /\ pc = "try_add"
    /\ \E snap \in {"taken", "skipped"}, k \in 0..Len(uiAdded) :
        /\ raisedCount' = raisedCount + 1
        /\ IF Caught("try_add_course")
           THEN /\ failed' = failed + 1
                /\ uiAdded' = remove_all_courses(uiAdded, k)
                /\ removesSince' = removesSince + 1
                /\ lastOutcome' = [branch |-> "exception", tally |-> "failed", snapshot |-> snap]
                /\ pc' = AfterExcept
                /\ crashCause' = crashCause
           ELSE /\ pc' = "crashed" /\ crashCause' = "try_add_course"
                /\ UNCHANGED <<failed, uiAdded, removesSince, lastOutcome>>
    /\ UNCHANGED <<fileExists, fileLines, course_pairs, dbConnects, tablesCreated,
                   logDirCreated, browserLaunched, idx, inflight, api_task, polls, seen,
                   status, payload, saved, skipped, attempted, saveCalls, summaryPrinted,
                   dbVars, others>>

\* lines 255-263: the code is typed and Enter pressed; the page adds the course
\* (and fires the class-data request) or not; the response wait starts
PressEnter ==
    /\ pc = "try_add"
    /\ \E added \in BOOLEAN :
        LET ui == IF added /\ ~(\E j \in 1..Len(uiAdded) : uiAdded[j] = Pair)
                  THEN Append(uiAdded, Pair) ELSE uiAdded
        IN  /\ uiAdded' = ui
            /\ inflight' = IF added THEN inflight \cup {ClassDataUrl(ui)} ELSE inflight
    /\ api_task' = PendingTask
    /\ pc' = "poll"
    /\ UNCHANGED <<fileExists, fileLines, course_pairs, dbConnects, tablesCreated,
                   logDirCreated, browserLaunched, idx, polls, seen, status, payload, saved,
                   skipped, failed, removesSince, attempted, raisedCount, saveCalls,
                   lastOutcome, crashCause, summaryPrinted, dbVars, others>>

\* try_add_course returns (st, p)
Return(st, p) ==
    /\ status' = st
    /\ payload' = p
    /\ pc' = "dispatch"

\* lines 266-281: one iteration of the polling loop
Poll ==
    /\ pc = "poll"
    /\ polls < steps
    /\ polls' = polls + 1
    /\ \E could_not \in BOOLEAN, only_avail \in BOOLEAN, ev \in Events(inflight) :
        LET task == TaskAfter(api_task, ev, Pair)
            ret == PollReturn(could_not, only_avail, task)
        IN  /\ seen' = [could_not |-> could_not, only_avail |-> only_avail]
            /\ inflight' = inflight \ {ev.url}
            /\ IF ret = "wait"
               THEN /\ api_task' = task
                    /\ pc' = "poll"
                    /\ UNCHANGED <<status, payload>>
               ELSE IF ret = "api"
               THEN /\ api_task' = task
                    /\ \E textOk \in BOOLEAN :
                         IF ApiStatus(task, textOk) = "saved"
                         THEN \E p \in RunPayloads(Pair) : Return("saved", p)
                         ELSE Return("no_option", EmptyText)
               ELSE /\ api_task' = CancelIfPending(task)
                    /\ Return(ret, EmptyText)
    /\ UNCHANGED <<fileExists, fileLines, course_pairs, dbConnects, tablesCreated,
                   logDirCreated, browserLaunched, idx, uiAdded, saved, skipped, failed,
                   removesSince, attempted, raisedCount, saveCalls, lastOutcome, crashCause,
                   summaryPrinted, dbVars, others>>

\* lines 283-290: the polling budget is used up
AfterPolls ==
    /\ pc = "poll"
    /\ polls = steps
    /\ \E ev \in Events(inflight) :
        LET task == TaskAfter(api_task, ev, Pair)
        IN  /\ inflight' = inflight \ {ev.url}
            /\ IF ~TaskDone(task)
               THEN /\ api_task' = CancelIfPending(task)
                    /\ Return("no_option", EmptyText)
               ELSE /\ api_task' = task
                    /\ \E textOk \in BOOLEAN :
                         IF ApiStatus(task, textOk) = "saved"
                         THEN \E p \in RunPayloads(Pair) : Return("saved", p)
                         ELSE Return("no_option", EmptyText)
    /\ UNCHANGED <<fileExists, fileLines, course_pairs, dbConnects, tablesCreated,
                   logDirCreated, browserLaunched, idx, uiAdded, polls, seen, saved, skipped,
                   failed, removesSince, attempted, raisedCount, saveCalls, lastOutcome,
                   crashCause, summaryPrinted, dbVars, others>>

\* line 339: writing the audit copy of the XML raises; no try block covers it
WriteTextRaises ==
    /\ pc = "dispatch"
    /\ status = "saved" /\ Truthy(payload)
    /\ ~Caught("write_text")
    /\ pc' = "crashed"
    /\ crashCause' = "write_text"
    /\ UNCHANGED <<fileExists, fileLines, course_pairs, dbConnects, tablesCreated,
                   logDirCreated, browserLaunched, idx, uiAdded, inflight, api_task, polls,
                   seen, status, payload, saved, skipped, failed, removesSince, attempted,
                   raisedCount, saveCalls, lastOutcome, summaryPrinted, dbVars, others>>

\* lines 337-368: the status decides the tally; a saved payload is parsed and
\* stored
Dispatch ==
    /\ pc = "dispatch"
    /\ LET o == LoopBody(status, payload, Db) IN
        /\ raisedCount' = IF o.raisedIn # "none" THEN raisedCount + 1 ELSE raisedCount
        /\ saveCalls' = IF o.saveCalled THEN saveCalls + 1 ELSE saveCalls
        /\ dbConnects' = IF o.saveCalled THEN dbConnects + 1 ELSE dbConnects
        /\ IF o.raisedIn # "none" /\ ~Caught(o.raisedIn)
           THEN /\ pc' = "crashed" /\ crashCause' = o.raisedIn
                /\ UNCHANGED <<saved, skipped, failed, lastOutcome, dbVars>>
           ELSE /\ pc' = "remove" /\ crashCause' = crashCause
                /\ saved' = IF o.tally = "saved" THEN saved + 1 ELSE saved
                /\ skipped' = IF o.tally = "skipped" THEN skipped + 1 ELSE skipped
                /\ failed' = IF o.tally = "failed" THEN failed + 1 ELSE failed
                /\ courses' = o.db.courses
                /\ selections' = o.db.selections
                /\ blocks' = o.db.blocks
                /\ \E snap \in {"taken", "skipped"} :
                     lastOutcome' = [branch |-> o.branch, tally |-> o.tally,
                                     snapshot |-> IF o.branch = "parse_error" \/ o.branch = "save_error"
                                                  THEN snap ELSE "none"]
    \* try_add_course's results are the iteration's locals: dead after the body
    /\ api_task' = NoTask /\ polls' = 0
    /\ seen' = [could_not |-> FALSE, only_avail |-> FALSE]
    /\ status' = "none" /\ payload' = EmptyText
    /\ UNCHANGED <<fileExists, fileLines, course_pairs, tablesCreated, logDirCreated,
                   browserLaunched, idx, uiAdded, inflight, removesSince, attempted,
                   summaryPrinted, others>>

\* lines 371-372: remove_all_courses before the next pair
RemoveAll ==
    /\ pc = "remove"
    /\ \E k \in 0..Len(uiAdded) : uiAdded' = remove_all_courses(uiAdded, k)
    /\ removesSince' = removesSince + 1
    /\ pc' = "loop"
    /\ UNCHANGED <<fileExists, fileLines, course_pairs, dbConnects, tablesCreated,
                   logDirCreated, browserLaunched, idx, inflight, api_task, polls, seen,
                   status, payload, saved, skipped, failed, attempted, raisedCount, saveCalls,
                   lastOutcome, crashCause, summaryPrinted, dbVars, others>>

\* lines 374-381: the summary is printed and the browser closed
Summary ==
    /\ pc = "summary"
    /\ summaryPrinted' = TRUE
    /\ pc' = "done"
    /\ UNCHANGED <<fileExists, fileLines, course_pairs, dbConnects, tablesCreated,
                   logDirCreated, browserLaunched, idx, uiAdded, inflight, api_task, polls,
                   seen, status, payload, saved, skipped, failed, removesSince, attempted,
                   raisedCount, saveCalls, lastOutcome, crashCause, dbVars, others>>

Next ==
    \/ EnsureDb \/ MkLogDir \/ CheckFile \/ Launch
    \/ LoopNext \/ LoopEnd \/ TryAddRaises \/ PressEnter \/ Poll \/ AfterPolls
    \/ WriteTextRaises \/ Dispatch \/ RemoveAll \/ Summary

Spec == Init /\ [][Next]_vars

(***************************************************************************)
(* Properties of the UI-driven run loop (checked under Spec)               *)
(***************************************************************************)

\* C1: whenever try_add_course starts for a pair, no course is still selected
\* in the UI (no course added for an earlier pair is left over).
C1_IsolationAtTryAdd == pc = "try_add" => uiAdded = <<>>

\* C2: between the call of try_add_course for one pair and the call for the
\* next, remove_all_courses is invoked exactly once, on every path of the
\* loop body: once the body is over exactly one call has been made, and
\* until then none.
C2_RemoveOncePerPair ==
    /\ (pc \in {"loop", "summary", "done"} /\ idx >= 1) => removesSince = 1
    /\ pc \in {"try_add", "poll", "dispatch", "remove"} => removesSince = 0

\* a pair whose try_add_course raised has been cleaned up once and the loop
\* is about to take the next pair
C2_Witness ==
    /\ pc = "loop" /\ idx >= 1 /\ idx < Len(course_pairs)
    /\ lastOutcome.branch = "exception" /\ removesSince = 1

\* C3: after Enter, try_add_course makes at most max(1, API_TIMEOUT //
\* POLL_INTERVAL) polling iterations and returns one of the four statuses:
\* skip_not_found only when the 'could not be' toast was visible at the poll,
\* skip_wrong_term only when the 'only available' toast was, saved only when
\* a class-data response naming this subject-number arrived, and no_option
\* when none of the three was observed.
C3_TryAddCourseOutcome ==
    /\ polls <= Max(1, API_TIMEOUT \div POLL_INTERVAL)
    /\ pc = "dispatch" =>
        /\ status \in {"skip_not_found", "skip_wrong_term", "saved", "no_option"}
        /\ status = "skip_not_found" => seen.could_not
        /\ status = "skip_wrong_term" => seen.only_avail
        /\ status = "saved" =>
              /\ api_task.state = "done"
              /\ api_task.url.classData
              /\ \E j \in 1..Len(api_task.url.courses) :
                    api_task.url.courses[j] = Target(course_pairs[idx])
              /\ payload \in RunPayloads(course_pairs[idx])
        /\ status # "saved" => payload = EmptyText
        /\ (~seen.could_not /\ ~seen.only_avail /\ api_task.state # "done")
              => status = "no_option"

\* the polling budget ran out with nothing observed
C3_Witness ==
    /\ pc = "dispatch" /\ status = "no_option"
    /\ polls = Max(1, API_TIMEOUT \div POLL_INTERVAL)
    /\ api_task.state = "cancelled"

\* C4 as stated: with course_codes.txt missing, run ends with no database
\* connection opened, no table created, no log directory created and no
\* browser launched.
C4_NoWorkBeforeAbort ==
    (pc = "done" /\ ~fileExists) =>
        /\ dbConnects = 0 /\ ~tablesCreated /\ ~logDirCreated /\ ~browserLaunched

\* C4 as amended: with course_codes.txt missing, no browser is launched, no
\* pair is processed and no row is written; run ends without a summary, after
\* ensure_db has connected once and created the tables and after the log
\* directory has been created.
C4_AbortBeforeBrowser ==
    ~fileExists =>
        /\ ~browserLaunched /\ idx = 0 /\ attempted = <<>> /\ DbEmpty
        /\ pc \in {"start", "mkdir", "check", "done"}
        /\ pc = "done" => /\ dbConnects = 1 /\ tablesCreated /\ logDirCreated
                          /\ ~summaryPrinted

\* run has returned because the file is missing
C4_Witness == pc = "done" /\ ~fileExists /\ tablesCreated /\ logDirCreated

\* C5: an exception raised in try_add_course, parse_addcourse_xml or
\* save_to_db never leaves run(): each is counted as failed, the pairs are
\* attempted in input order each exactly once, run never stops before the
\* list is exhausted, and a run that ends without an exception has printed
\* the summary after attempting every pair.
C5_FaultIsolation ==
    /\ crashCause \notin {"try_add_course", "parse_addcourse_xml", "save_to_db"}
    /\ attempted = SubSeq(course_pairs, 1, idx)
    /\ raisedCount <= failed
    /\ lastOutcome.branch \in {"exception", "parse_error", "save_error"}
          => lastOutcome.tally = "failed"
    /\ (pc = "done" /\ fileExists) => (summaryPrinted /\ attempted = course_pairs)
    /\ pc \notin {"done", "crashed"} => ENABLED Next

\* the second pair is attempted after the first pair raised
C5_Witness == pc = "try_add" /\ idx = 2 /\ raisedCount = 1 /\ failed = 1

\* C10: a response that parses and yields no selection is counted as skipped
\* only; nothing is raised, save_to_db is not called and the three tables
\* are unchanged.
C10_BenignEmpty ==
    [][ ( /\ pc = "dispatch" /\ status = "saved" /\ Truthy(payload)
          /\ ~parse_addcourse_xml(payload).raised
          /\ parse_addcourse_xml(payload).selections = <<>>
          /\ pc' # "crashed" )
        => ( /\ skipped' = skipped + 1 /\ saved' = saved /\ failed' = failed
             /\ raisedCount' = raisedCount /\ saveCalls' = saveCalls
             /\ dbConnects' = dbConnects
             /\ courses' = courses /\ selections' = selections /\ blocks' = blocks
             /\ pc' = "remove" ) ]_vars

\* a pair whose response had no selection has been counted as skipped
C10_Witness ==
    /\ pc = "remove" /\ lastOutcome.branch = "empty" /\ lastOutcome.tally = "skipped"
    /\ skipped = 1 /\ saveCalls = 0

\* the tallies' sum, and the lines of the input file that hold a pair
TallySum == saved + skipped + failed
ValidLines == Cardinality({i \in 1..Len(fileLines) : Len(fileLines[i]) = 2})

\* C12: every step of run leaves the three tallies unchanged or adds one to
\* exactly one of them, and it adds one exactly when it ends a pair's
\* iteration; so at each loop boundary saved + skipped + failed is the number
\* of pairs processed so far, and at the summary it is the number of valid
\* pairs read from the file ("saved" with an empty payload included).
C12_TallyInvariant ==
    [][ /\ <<saved', skipped', failed'>> \in
              { <<saved, skipped, failed>>, <<saved + 1, skipped, failed>>,
                <<saved, skipped + 1, failed>>, <<saved, skipped, failed + 1>> }
        /\ (TallySum' = TallySum + 1) <=>
              (pc \in {"try_add", "poll", "dispatch"} /\ pc' \in {"loop", "remove"})
        /\ pc' \in {"loop", "remove", "summary", "done"} => TallySum' = idx'
        /\ (pc' \in {"summary", "done"} /\ fileExists) =>
              (TallySum' = Len(course_pairs) /\ TallySum' = ValidLines) ]_vars

\* the summary has been printed after two pairs, the second of which came
\* back "saved" with an empty payload and was counted as failed
C12_Witness ==
    /\ pc = "done" /\ summaryPrinted /\ Len(course_pairs) = 2
    /\ lastOutcome.branch = "unknown" /\ lastOutcome.tally = "failed"
    /\ saved = 1 /\ failed = 1 /\ TallySum = 2

(***************************************************************************)
(* SpecParse: parse_addcourse_xml applied to one response text             *)
(***************************************************************************)
ParseUSels ==
    { USelection(h, k, c[1], c[2]) :
        h \in BOOLEAN, k \in {"s1", "s2"},
        c \in { << <<Tb1>>, <<Block("LEC", <<"1">>)>> >>,
                << <<Tb1, Tb2>>, <<Block("LEC", <<"1", "3">>), Block("TUT", <<>>)>> >> } }

ParseTexts ==
    {EmptyText, MalformedText}
    \cup { XmlText(Document(cd, co, "c1", us)) :
             cd \in BOOLEAN, co \in BOOLEAN, us \in SeqsUpTo(ParseUSels, MaxUsel) }

InitParse ==
    /\ xmlDoc \in ParseTexts
    /\ parsed = [done |-> FALSE, result |-> parse_addcourse_xml(EmptyText)]
    /\ RunIdle /\ DbEmpty /\ StoreIdle /\ PagerIdle /\ CleanIdle

ParseCall ==
    /\ ~parsed.done
    /\ parsed' = [done |-> TRUE, result |-> parse_addcourse_xml(xmlDoc)]
    /\ UNCHANGED <<xmlDoc, runVars, dbVars, storeVars, pagerVars, cleanVars>>

NextParse == ParseCall

SpecParse == InitParse /\ [][NextParse]_vars

HasBoth == xmlDoc.text = "xml" /\ xmlDoc.doc.hasClassdata /\ xmlDoc.doc.hasCourse

\* C6 as stated: a document with a classdata and a course element whose
\* course has N uselection children parses to exactly N selection records.
C6_OnePerUselection ==
    (parsed.done /\ HasBoth) =>
        /\ ~parsed.result.raised
        /\ Len(parsed.result.selections) = Len(xmlDoc.doc.uselections)

\* the position of the j-th uselection that has a selection child
NthWithSelection(usels, j) ==
    CHOOSE i \in 1..Len(usels) :
        /\ usels[i].hasSelection
        /\ Cardinality({m \in 1..i : usels[m].hasSelection}) = j

\* C6 as amended: such a document parses without error to one selection
\* record per uselection child that has a selection child, in document
\* order; a uselection without a selection child yields no record.
C6_OnePerUselectionWithSelection ==
    (parsed.done /\ HasBoth) =>
        LET usels == xmlDoc.doc.uselections
            sels == parsed.result.selections
        IN  /\ ~parsed.result.raised
            /\ Len(sels) = Cardinality({i \in 1..Len(usels) : usels[i].hasSelection})
            /\ \A j \in 1..Len(sels) :
                  /\ sels[j].selection_key = usels[NthWithSelection(usels, j)].key
                  /\ Len(sels[j].blocks) = Len(usels[NthWithSelection(usels, j)].blocks)

\* a course with two uselection children, the first without a selection
C6_Witness ==
    /\ parsed.done /\ HasBoth
    /\ Len(xmlDoc.doc.uselections) = 2
    /\ ~xmlDoc.doc.uselections[1].hasSelection /\ xmlDoc.doc.uselections[2].hasSelection
    /\ Len(parsed.result.selections) = 1

(***************************************************************************)
(* SpecStore: save_to_db called again and again on the store               *)
(***************************************************************************)
StoreUSels ==
    { USelection(TRUE, "s1", <<Tb1>>, <<Block("LEC", <<"1">>)>>),
      USelection(TRUE, "s1", <<Tb1, Tb2>>, <<Block("LEC", <<"1", "2">>), Block("TUT", <<"1">>)>>),
      USelection(TRUE, "s2", <<Tb1, Tb2>>, <<Block("LAB", <<"1", "2">>)>>),
      USelection(TRUE, "s2", <<TbBad>>, <<Block("LAB", <<"1">>)>>) }

\* the (course, selections) arguments: what parse_addcourse_xml returns for
\* documents of a course with up to two uselection children
StoreInputs ==
    { parse_addcourse_xml(XmlText(Document(TRUE, TRUE, k, us))) :
        k \in {"c1", "c2"}, us \in SeqsUpTo(StoreUSels, 2) }

InitStore ==
    /\ DbEmpty
    /\ saveLog = <<>>
    /\ RunIdle /\ ParseIdle /\ PagerIdle /\ CleanIdle

StoreSave ==
    /\ Len(saveLog) < MaxSaves
    /\ \E in \in StoreInputs :
        LET w == save_to_db(Db, in.course, in.selections) IN
        /\ courses' = w.db.courses
        /\ selections' = w.db.selections
        /\ blocks' = w.db.blocks
        /\ saveLog' = Append(saveLog, [course |-> in.course, selections |-> in.selections,
                                       raised |-> w.raised, after |-> w.db])
    /\ UNCHANGED <<runVars, parseVars, pagerVars, cleanVars>>

NextStore == StoreSave

SpecStore == InitStore /\ [][NextStore]_vars

\* the store before the i-th call
StoreBefore(i) == IF i = 1 THEN EmptyDb ELSE saveLog[i - 1].after

SameArguments(i) ==
    /\ saveLog[i].course = saveLog[i - 1].course
    /\ saveLog[i].selections = saveLog[i - 1].selections

\* C7: a second save_to_db call with the same (course, selections) leaves
\* courses and selections as the first call left them, and appends to blocks
\* a copy of every row the first call wrote: same values, fresh ids.
C7_ReingestUnchanged ==
    \A i \in 2..Len(saveLog) :
        SameArguments(i) =>
            LET first == saveLog[i - 1].after
                second == saveLog[i].after
                n0 == Len(StoreBefore(i - 1).blocks)
                n1 == Len(first.blocks)
                n2 == Len(second.blocks)
            IN  /\ second.courses = first.courses
                /\ second.selections = first.selections
                /\ SubSeq(second.blocks, 1, n1) = first.blocks
                /\ n2 - n1 = n1 - n0
                /\ \A j \in 1..(n1 - n0) :
                      /\ second.blocks[n1 + j].v = first.blocks[n0 + j].v
                      /\ \A m \in 1..n1 : second.blocks[n1 + j].id # first.blocks[m].id

\* a course with block rows has been saved twice in a row
C7_Witness ==
    /\ Len(saveLog) = 2 /\ SameArguments(2) /\ ~saveLog[2].raised
    /\ Len(saveLog[1].after.blocks) >= 2
    /\ Len(blocks) = 2 * Len(saveLog[1].after.blocks)

\* course_key of the selection a blocks row belongs to (the join of view_db.py)
OwnerCourse(row) ==
    LET owners == {r \in selections : r.selection_key = row.v.selection_key}
    IN  IF owners = {} THEN NoneVal ELSE (CHOOSE r \in owners : TRUE).course_key

Combination(row) == <<OwnerCourse(row), row.v.selection_key, row.v.timeblock_id>>

\* C8 as stated: no two rows of blocks share (course_key, selection_key,
\* timeblock_id).
C8_UniqueCombination ==
    \A i \in 1..Len(blocks) : \A j \in 1..Len(blocks) :
        i # j => Combination(blocks[i]) # Combination(blocks[j])

\* the selections written by the calls that did not raise, in order
WrittenSelections ==
    Concat([i \in 1..Len(saveLog) |->
        IF saveLog[i].raised THEN <<>> ELSE saveLog[i].selections])

\* every selection_key has been written once, and no written selection
\* references a timeblock id twice over its blocks
WrittenOnce ==
    LET ws == WrittenSelections IN
    /\ \A a \in 1..Len(ws) : \A b \in 1..Len(ws) :
          a # b => ws[a].selection_key # ws[b].selection_key
    /\ \A a \in 1..Len(ws) :
          LET ids == Concat([b \in 1..Len(ws[a].blocks) |->
                         [t \in 1..Len(ws[a].blocks[b].timeblocks) |->
                             ws[a].blocks[b].timeblocks[t].id]])
          IN  \A x \in 1..Len(ids) : \A y \in 1..Len(ids) : x # y => ids[x] # ids[y]

\* C8 as amended: the rows of blocks always have pairwise different ids; they
\* have pairwise different (course_key, selection_key, timeblock_id) as long
\* as every selection_key has been saved only once and no saved selection
\* references the same timeblock id twice over its blocks.
C8_UniqueWhileWrittenOnce ==
    /\ \A i \in 1..Len(blocks) : \A j \in 1..Len(blocks) :
          i # j => blocks[i].id # blocks[j].id
    /\ WrittenOnce => C8_UniqueCombination

\* two calls have written three rows, each selection once
C8_Witness ==
    /\ WrittenOnce /\ Len(saveLog) = 2
    /\ ~saveLog[1].raised /\ ~saveLog[2].raised
    /\ Len(saveLog[1].after.blocks) >= 1 /\ Len(blocks) >= 3

(***************************************************************************)
(* SpecPager: main() of web_scrape.py                                      *)
(***************************************************************************)
\* line 124: END_PAGE (None) or the detected number or 31; detection returns
\* None for a largest label of 0
LastPage(detected) == IF detected = 0 THEN FALLBACK_LAST_PAGE ELSE detected

\* lines 75-104: the rows from index 3 up to the one before the last are
\* read; a row whose link is found writes one name
scrape_names_on_page(nrows, okRows) ==
    Cardinality({j \in FIRST_ROW..(nrows - 2) : j \in okRows})

InitPager ==
    /\ pg_pc = "start" /\ page_i = 0 /\ displayed = 0 /\ last_page = 0
    /\ scrapedPages = <<>> /\ clickedPages = <<>> /\ clickFailed = FALSE /\ written = 0
    /\ RunIdle /\ DbEmpty /\ StoreIdle /\ ParseIdle /\ CleanIdle

\* lines 118-131: the catalog URL is opened, which shows its first page, the
\* last page is determined and the loop entered at START_PAGE
PagerStart ==
    /\ pg_pc = "start"
    /\ \E detected \in 0..MaxDetected : last_page' = LastPage(detected)
    /\ displayed' = 1
    /\ written' = 0
    /\ page_i' = START_PAGE
    /\ pg_pc' = IF START_PAGE <= last_page' THEN "scrape" ELSE "done"
    /\ UNCHANGED <<scrapedPages, clickedPages, clickFailed, runVars, dbVars, storeVars,
                   parseVars, cleanVars>>

\* line 132: scrape_names_on_page(driver, i, writer) reads the page shown
PagerScrape ==
    /\ pg_pc = "scrape"
    /\ \E nrows \in 0..MaxRows, okRows \in SUBSET (FIRST_ROW..(MaxRows - 2)) :
          written' = written + scrape_names_on_page(nrows, okRows)
    /\ scrapedPages' = Append(scrapedPages, [label |-> page_i, content |-> displayed])
    /\ pg_pc' = "click"
    /\ UNCHANGED <<page_i, displayed, last_page, clickedPages, clickFailed, runVars, dbVars,
                   storeVars, parseVars, cleanVars>>

\* lines 134-140 and the loop step: the button "Page i" is clicked, which
\* shows page i; a click that raises ends the loop
PagerClick ==
    /\ pg_pc = "click"
    /\ \E ok \in BOOLEAN :
        IF ok
        THEN /\ clickedPages' = Append(clickedPages, page_i)
             /\ displayed' = page_i
             /\ page_i' = page_i + 1
             /\ pg_pc' = IF page_i + 1 <= last_page THEN "scrape" ELSE "done"
             /\ UNCHANGED clickFailed
        ELSE /\ clickFailed' = TRUE
             /\ pg_pc' = "done"
             /\ UNCHANGED <<clickedPages, displayed, page_i>>
    /\ UNCHANGED <<last_page, scrapedPages, written, runVars, dbVars, storeVars, parseVars,
                   cleanVars>>

NextPager == PagerStart \/ PagerScrape \/ PagerClick

SpecPager == InitPager /\ [][NextPager]_vars

\* C9: when no pagination click fails (and the loop is entered), main has
\* scraped the pages from the one first shown through last_page, each once
\* and in order, so that page last_page has been scraped when the run ends.
C9_EveryPageThroughLast ==
    (pg_pc = "done" /\ ~clickFailed /\ last_page >= START_PAGE) =>
        /\ Len(scrapedPages) = last_page
        /\ \A j \in 1..Len(scrapedPages) : scrapedPages[j].content = j

(***************************************************************************)
(* cleandata.py: the course-code extractor.  A text is a sequence of       *)
(* atoms: a word, or one of the characters " ", "-", "U+2013" (en dash),   *)
(* "U+2014" (em dash), "U+2022" (bullet).  A csv row is a sequence of      *)
(* cells, each a text; a blank line of the file is the empty row.          *)
(***************************************************************************)
EnDash == "U+2013"
EmDash == "U+2014"
Bullet == "U+2022"

\* the words of the model that consist of upper-case letters only, the ones
\* of the form digit, two of [A-Z0-9], digit, and all the words
UpperLetterWords == {"MATH", "CHEM", "NOT", "COURSE", "NAME", "INTRO"}
CatalogWords == {"1ZB3", "1A03"}
WordAtoms == UpperLetterWords \cup CatalogWords
                \cup {"math", "chem", "1zb3", "1a03", "Not", "Course", "Name", "Intro"}

\* str.upper() on one atom
UpperAtom(a) ==
    CASE a = "math" -> "MATH" [] a = "chem" -> "CHEM" [] a = "1zb3" -> "1ZB3"
      [] a = "1a03" -> "1A03" [] a = "Not" -> "NOT" [] a = "Course" -> "COURSE"
      [] a = "Name" -> "NAME" [] a = "Intro" -> "INTRO" [] OTHER -> a

\* line 31: .replace(en dash, '-').replace(em dash, '-')
ReplaceDashes(t) == [i \in DOMAIN t |-> IF t[i] \in {EnDash, EmDash} THEN "-" ELSE t[i]]
\* line 31: .replace(bullet, '')
IsNotBullet(a) == a # Bullet
RemoveBullets(t) == SelectSeq(t, IsNotBullet)
\* line 31: .strip()
RECURSIVE LStrip(_)
LStrip(t) == IF t # <<>> /\ Head(t) = " " THEN LStrip(Tail(t)) ELSE t
RECURSIVE RStrip(_)
RStrip(t) == IF t # <<>> /\ t[Len(t)] = " " THEN RStrip(SubSeq(t, 1, Len(t) - 1)) ELSE t
Strip(t) == RStrip(LStrip(t))
\* line 31: .upper()
UpperText(t) == [i \in DOMAIN t |-> UpperAtom(t[i])]
\* line 31, the whole chain
Normalize(t) == UpperText(Strip(RemoveBullets(ReplaceDashes(t))))

\* the number of leading atoms of t that lie in S
RECURSIVE LeadingRun(_, _)
LeadingRun(t, S) == IF t # <<>> /\ Head(t) \in S THEN 1 + LeadingRun(Tail(t), S) ELSE 0

\* lines 7 and 38: CODE_LINE_RE.match(text).  After optional white space the
\* subject is the longest run of upper-case letters, at least one space
\* follows, then one catalog word, which must end at a word boundary.
CODE_LINE_RE_match(text) ==
    LET t == LStrip(text)
        k == LeadingRun(t, UpperLetterWords)
        rest == SubSeq(t, k + 1, Len(t))
        n == LeadingRun(rest, {" "})
        c == k + n + 1
        ok == /\ k >= 1 /\ n >= 1 /\ c <= Len(t) /\ t[c] \in CatalogWords
              /\ (c = Len(t) \/ t[c + 1] \notin WordAtoms)
    IN  [matched |-> ok,
         subj    |-> IF ok THEN SubSeq(t, 1, k) ELSE <<>>,
         catalog |-> IF ok THEN t[c] ELSE ""]

\* line 43 (the mutant appends the column as read instead)
RejectEntry_raw(raw, text) == raw
\* line 43: rejected.append(text)
RejectEntry(raw, text) == text

\* lines 27-43: what one row of the reader does
RowStep(row, hs) ==
    IF row = <<>> THEN [kind |-> "blank", code |-> <<>>, reject |-> <<>>]
    ELSE LET raw == row[1]
             text == Normalize(raw)
             m == CODE_LINE_RE_match(text)
         IN  IF ~hs /\ text = <<"COURSE", " ", "NAME">>
             THEN [kind |-> "header", code |-> <<>>, reject |-> <<>>]
             ELSE IF m.matched
             THEN [kind |-> "code", code |-> m.subj \o <<" ", m.catalog>>, reject |-> <<>>]
             ELSE [kind |-> "reject", code |-> <<>>, reject |-> RejectEntry(raw, text)]

\* the order of str on the upper-case atoms, and on texts (line 47: sorted)
AtomRank(a) ==
    CASE a = " " -> 0 [] a = "1A03" -> 1 [] a = "1ZB3" -> 2 [] a = "CHEM" -> 3
      [] a = "COURSE" -> 4 [] a = "INTRO" -> 5 [] a = "MATH" -> 6 [] a = "NAME" -> 7
      [] OTHER -> 8
RECURSIVE TextBefore(_, _)
TextBefore(a, b) ==
    IF a = <<>> THEN b # <<>>
    ELSE IF b = <<>> THEN FALSE
    ELSE IF Head(a) = Head(b) THEN TextBefore(Tail(a), Tail(b))
    ELSE AtomRank(Head(a)) < AtomRank(Head(b))
\* line 47: sorted(codes)
Sorted(S) ==
    CHOOSE q \in [1..Cardinality(S) -> S] :
        \A i, j \in 1..Cardinality(S) : i < j => TextBefore(q[i], q[j])

\* the rows course_names.csv may hold
CsvRowSet ==
    { <<>>,
      << <<>> >>,
      << <<"Course", " ", "Name">> >>,
      << <<"MATH", " ", "1ZB3", " ", "Intro">> >>,
      << <<"math", " ", "1zb3">> >>,
      << <<"chem", " ", "1a03", "-", "Intro">> >>,
      << <<"Not", " ", "Course">> >>,
      << <<"NOT", " ", "COURSE">> >>,
      << <<Bullet, " ", "MATH", " ", "1ZB3">> >>,
      << <<"MATH", " ", EnDash, " ", "Intro">> >>,
      << <<"MATH", Bullet, "1ZB3">> >>,
      << <<" ", "Intro", " ">>, <<"MATH", " ", "1ZB3">> >> }

InitClean ==
    /\ cl_pc = "rows"
    /\ csvRows \in SeqsUpTo(CsvRowSet, MaxCsvRows)
    /\ rowIdx = 0 /\ header_seen = FALSE /\ codes = {} /\ rejected = <<>>
    /\ rejectedFrom = <<>> /\ codesFile = <<>> /\ rejectedFile = <<>>
    /\ RunIdle /\ DbEmpty /\ StoreIdle /\ ParseIdle /\ PagerIdle

\* lines 26-43: one iteration of the for loop over the reader
CleanRow ==
    /\ cl_pc = "rows" /\ rowIdx < Len(csvRows)
    /\ LET r == RowStep(csvRows[rowIdx + 1], header_seen) IN
        /\ header_seen' = (header_seen \/ r.kind = "header")
        /\ codes' = IF r.kind = "code" THEN codes \cup {r.code} ELSE codes
        /\ rejected' = IF r.kind = "reject" THEN Append(rejected, r.reject) ELSE rejected
        /\ rejectedFrom' = IF r.kind = "reject" THEN Append(rejectedFrom, rowIdx + 1)
                           ELSE rejectedFrom
    /\ rowIdx' = rowIdx + 1
    /\ UNCHANGED <<cl_pc, csvRows, codesFile, rejectedFile, runVars, dbVars, storeVars,
                   parseVars, pagerVars>>

\* lines 46-53: the two output files are written, one entry per line
CleanWrite ==
    /\ cl_pc = "rows" /\ rowIdx = Len(csvRows)
    /\ codesFile' = Sorted(codes)
    /\ rejectedFile' = rejected
    /\ cl_pc' = "done"
    /\ UNCHANGED <<csvRows, rowIdx, header_seen, codes, rejected, rejectedFrom, runVars,
                   dbVars, storeVars, parseVars, pagerVars>>

NextClean == CleanRow \/ CleanWrite

SpecClean == InitClean /\ [][NextClean]_vars

\* the column the reject list entry j was read from, as it stood in the input
RejectSource(j) == csvRows[rejectedFrom[j]][1]

\* C11 (as stated): every line of rejected_lines.txt is, character for
\* character, the input column of the row it was rejected for.
C11_RejectsVerbatim ==
    cl_pc = "done" =>
        \A j \in 1..Len(rejectedFile) : rejectedFile[j] = RejectSource(j)

\* the index of the row skipped as the header (0 when none was), and the rows
\* among the first n that are neither blank, nor that header, nor a code
\* line once normalised
HeaderRow(n) ==
    LET H == {i \in 1..n : csvRows[i] # <<>>
                           /\ Normalize(csvRows[i][1]) = <<"COURSE", " ", "NAME">>}
    IN  IF H = {} THEN 0 ELSE CHOOSE i \in H : \A h \in H : i <= h
RejectRows(n) ==
    {i \in 1..n : /\ csvRows[i] # <<>>
                  /\ i # HeaderRow(n)
                  /\ ~CODE_LINE_RE_match(Normalize(csvRows[i][1])).matched}

\* C11 (amended): the reject list holds, one entry per row and in input
\* order, the normalised text (dashes replaced, bullets removed, trimmed,
\* upper-cased) of every non-blank row that is not the first COURSE NAME row
\* and whose normalised text does not match; the file is that list.
C11_RejectsNormalised ==
    /\ cl_pc \in {"rows", "done"} =>
        /\ Len(rejected) = Cardinality(RejectRows(rowIdx))
        /\ Len(rejectedFrom) = Len(rejected)
        /\ {rejectedFrom[j] : j \in 1..Len(rejectedFrom)} = RejectRows(rowIdx)
        /\ \A j, k \in 1..Len(rejectedFrom) : j < k => rejectedFrom[j] < rejectedFrom[k]
        /\ \A j \in 1..Len(rejected) : rejected[j] = Normalize(RejectSource(j))
    /\ cl_pc = "done" => rejectedFile = rejected

\* a header was skipped and two rows were rejected, the first of them with a
\* text that normalisation changed
C11_Witness ==
    /\ cl_pc = "done" /\ header_seen
    /\ Len(rejectedFile) = 2
    /\ rejectedFile[1] # RejectSource(1)

====
